---- MODULE Spec2Model ----
(***************************************************************************)
(* A model of the Passage model of the story editor                        *)
(* (src/src/data/models/passage.js): the change and sync handlers that    *)
(* initialize() registers, validate(), links(), replaceLink(),            *)
(* intersects() and displace().                                            *)
(*                                                                         *)
(* Numbers.  Passage.padding is 12.5, so every coordinate of the model is *)
(* kept in half pixels (the integer 2x stands for the JavaScript number   *)
(* x); all coordinates the model draws are multiples of 0.5 and every     *)
(* operation of the code on them (+, -, min, max, abs, <, >) is exact.    *)
(* A JavaScript number is a record: nan tells whether it is NaN, v is its *)
(* value in half pixels (0 when it is NaN).                                *)
(***************************************************************************)
EXTENDS Integers, Sequences, FiniteSets, TLC

VARIABLES
    passages,   \* PassageCollection.all(): the passages, in creation order
    stories,    \* StoryCollection.all(): the stories
    op,         \* the call that returned last, with its arguments
    source      \* the literal runs and link tokens the first text was written as

vars == <<passages, stories, op, source>>

-----------------------------------------------------------------------------
(* Bounds of the model *)

MaxPassages == 2
MaxTouches == 2
MaxInflight == 1
MaxAnchorPx == 200
MaxPieces == 2

-----------------------------------------------------------------------------
(* JavaScript numbers *)

Num(n) == [nan |-> FALSE, v |-> n]
NaN == [nan |-> TRUE, v |-> 0]
\* the number x pixels
Px(x) == Num(2 * x)

Plus(a, b) == IF a.nan \/ b.nan THEN NaN ELSE Num(a.v + b.v)
Minus(a, b) == IF a.nan \/ b.nan THEN NaN ELSE Num(a.v - b.v)
Negate(a) == IF a.nan THEN NaN ELSE Num(0 - a.v)
\* a < b and a > b: false when either is NaN
Less(a, b) == ~a.nan /\ ~b.nan /\ a.v < b.v
Greater(a, b) == ~a.nan /\ ~b.nan /\ a.v > b.v
\* a !== b on numbers: NaN differs from everything
StrictNotEqual(a, b) == a.nan \/ b.nan \/ a.v # b.v
MathMin(a, b) == IF a.nan \/ b.nan THEN NaN ELSE IF a.v < b.v THEN a ELSE b
MathMax(a, b) == IF a.nan \/ b.nan THEN NaN ELSE IF a.v > b.v THEN a ELSE b
MathAbs(a) == IF a.nan THEN NaN ELSE IF a.v < 0 THEN Num(0 - a.v) ELSE a
\* undefined where a number is used (Math.abs(undefined), n + undefined)
Undefined == NaN

-----------------------------------------------------------------------------
(* Static properties of Passage *)

width == 100
height == 100
\* Passage.padding, 12.5, in half pixels
paddingHalfPx == 25
padding == Num(paddingHalfPx)

-----------------------------------------------------------------------------
(* Identities *)

\* an id that is undefined (the model was never persisted)
NoId == ""
\* the cid Backbone gives the i-th passage, and the id persistence gives it
PassageCid == <<"c1", "c2", "c3", "c4">>
PassageId == <<"p1", "p2", "p3", "p4">>

\* defaults(): the attributes of a passage created with none
defaults ==
    [story |-> "-1", top |-> Px(0), left |-> Px(0), name |-> "Untitled Passage",
     text |-> <<"Double-click this passage to edit it.">>]

\* the options a caller passes to set() and save()
NoOptions ==
    [noParentUpdate |-> FALSE, noValidation |-> FALSE, noDupeValidation |-> FALSE]

-----------------------------------------------------------------------------
(* fetchStory: the index in stories of the first story whose id or cid is
   the passage's story attribute; 0 when there is none (undefined) *)

fetchStory(this) ==
    LET hits == {s \in DOMAIN stories :
                    stories[s].id = this.story \/ stories[s].cid = this.story}
    IN IF hits = {} THEN 0 ELSE CHOOSE s \in hits : \A t \in hits : s <= t

-----------------------------------------------------------------------------
(* The 'change' handler of initialize(), run by set(attrs, options).

   set() assigns the attributes that differ and, when some did, triggers
   'change' with the caller's options.  The handler saves the parent
   story's lastUpdate unless options.noParentUpdate, then clamps a changed
   top or left that is negative by a nested this.set(attr, 0).  The nested
   set passes no options, and Backbone (since 1.1.1) triggers the pending
   'change' of a nested set with the options of that nested call: the
   handler runs a second time with options {}.

   The result: the passage after the call and how many times the parent's
   lastUpdate was saved. *)

Assign(this, attrs) ==
    [f \in DOMAIN this |-> IF f \in DOMAIN attrs THEN attrs[f] ELSE this[f]]

onChange(this, changed, options) ==
    LET parent == fetchStory(this)
        touch == IF ~options.noParentUpdate /\ parent # 0 THEN 1 ELSE 0
        clampTop == "top" \in changed /\ Less(this.top, Num(0))
        clampLeft == "left" \in changed /\ Less(this.left, Num(0))
        clamped == [this EXCEPT !.top = IF clampTop THEN Num(0) ELSE @,
                                !.left = IF clampLeft THEN Num(0) ELSE @]
        \* the 'change' the nested set left pending, with its options ({})
        again == IF parent # 0 THEN 1 ELSE 0
    IN IF clampTop \/ clampLeft
       THEN [passage |-> clamped, touches |-> touch + again]
       ELSE [passage |-> this, touches |-> touch]

set(this, attrs, options) ==
    LET changed == {f \in DOMAIN attrs : attrs[f] # this[f]}
    IN IF changed = {}
       THEN [passage |-> this, touches |-> 0]
       ELSE onChange(Assign(this, attrs), changed, options)

\* parent.save('lastUpdate', new Date()), n times: the date is a counter
Touch(sts, s, n) ==
    IF s = 0 \/ n = 0 THEN sts
    ELSE [sts EXCEPT ![s].lastUpdate = @ + n]

\* the stories after a set() on passage this that saved its parent n times
TouchedBy(this, n) == Touch(stories, fetchStory(this), n)

CanTouch(this, n) ==
    LET s == fetchStory(this)
    IN IF s = 0 \/ n = 0 THEN TRUE ELSE stories[s].lastUpdate + n <= MaxTouches

-----------------------------------------------------------------------------
(* intersects(other) *)

intersects(this, other) ==
    LET pP == padding
        pW == Px(width)
        pH == Px(height)
    IN /\ Less(Minus(this.left, pP), Plus(Plus(other.left, pW), pP))
       /\ Greater(Plus(Plus(this.left, pW), pP), Minus(other.left, pP))
       /\ Less(Minus(this.top, pP), Plus(Plus(other.top, pH), pP))
       /\ Greater(Plus(Plus(this.top, pH), pP), Minus(other.top, pP))

(* displace(other).  The padded edges of a passage, the move displace()
   chooses on each axis (undefined when the overlap on the axis is 0), and
   the attribute displace() sets on other with its value. *)

paddedLeft(passage) == Minus(passage.left, padding)
paddedRight(passage) ==
    Plus(Plus(paddedLeft(passage), Px(width)), Plus(padding, padding))
paddedTop(passage) == Minus(passage.top, padding)
paddedBottom(passage) ==
    Plus(Plus(paddedTop(passage), Px(height)), Plus(padding, padding))

xChange(this, other) ==
    LET p == padding
        tLeft == paddedLeft(this)
        tRight == paddedRight(this)
        oLeft == paddedLeft(other)
        oRight == paddedRight(other)
        xOverlap == Minus(MathMin(tRight, oRight), MathMax(tLeft, oLeft))
        leftMove == Plus(Plus(Minus(oLeft, tLeft), Px(width)), p)
        rightMove == Plus(Minus(tRight, oLeft), p)
    IN IF StrictNotEqual(xOverlap, Num(0))
       THEN IF Less(leftMove, rightMove) THEN Negate(leftMove) ELSE rightMove
       ELSE Undefined

yChange(this, other) ==
    LET p == padding
        tTop == paddedTop(this)
        tBottom == paddedBottom(this)
        oTop == paddedTop(other)
        oBottom == paddedBottom(other)
        yOverlap == Minus(MathMin(tBottom, oBottom), MathMax(tTop, oTop))
        upMove == Plus(Plus(Minus(oTop, tTop), Px(height)), p)
        downMove == Plus(Minus(tBottom, oTop), p)
    IN IF StrictNotEqual(yOverlap, Num(0))
       THEN IF Less(upMove, downMove) THEN Negate(upMove) ELSE downMove
       ELSE Undefined

\* displace() with the comparison of the two moves the other way round
displaceMoveLarger(this, other) ==
    IF Less(MathAbs(xChange(this, other)), MathAbs(yChange(this, other)))
    THEN [attr |-> "top", value |-> Plus(paddedTop(other), yChange(this, other))]
    ELSE [attr |-> "left", value |-> Plus(paddedLeft(other), xChange(this, other))]

displaceMove(this, other) ==
    IF Greater(MathAbs(xChange(this, other)), MathAbs(yChange(this, other)))
    THEN [attr |-> "top", value |-> Plus(paddedTop(other), yChange(this, other))]
    ELSE [attr |-> "left", value |-> Plus(paddedLeft(other), xChange(this, other))]

-----------------------------------------------------------------------------
(* The state after construction: no passage yet, two persisted stories
   without a start passage *)

NoPassage ==
    [cid |-> "", id |-> NoId, story |-> defaults.story, name |-> "",
     text |-> <<>>, left |-> Px(0), top |-> Px(0), inflight |-> <<>>]

NoCall ==
    [name |-> "none", this |-> 0, other |-> 0, options |-> NoOptions,
     written |-> <<>>, prev |-> [left |-> Px(0), top |-> Px(0)], touches |-> 0, pointing |-> {},
     result |-> "ok", text |-> <<>>, oldLink |-> <<>>, newLink |-> <<>>,
     internalOnly |-> FALSE, returned |-> <<>>]

Init ==
    /\ passages = <<>>
    /\ stories = <<[cid |-> "sc1", id |-> "s1", startPassage |-> "", lastUpdate |-> 0],
                   [cid |-> "sc2", id |-> "s2", startPassage |-> "", lastUpdate |-> 0]>>
    /\ op = NoCall
    /\ source = <<>>

-----------------------------------------------------------------------------
(* new Passage(attrs): Backbone's constructor assigns the cid, sets the
   defaults overlaid with attrs and only then calls initialize(), so the
   'change' handler is not yet registered when the initial attributes are
   set: nothing is clamped, validated or cascaded.  left and top are in
   pixels. *)

New(story, name, left, top) ==
    LET n == Len(passages) + 1
        created == [cid |-> PassageCid[n], id |-> NoId, story |-> story,
                    name |-> name, text |-> defaults.text,
                    left |-> Px(left), top |-> Px(top), inflight |-> <<>>]
    IN /\ n <= MaxPassages
       /\ passages' = Append(passages, created)
       /\ op' = [NoCall EXCEPT !.name = "new", !.this = n]
       /\ UNCHANGED <<stories, source>>

(* passage.set(attrs, options), attrs a function from attribute names to
   values *)

Set(i, attrs, options) ==
    LET this == passages[i]
        r == set(this, attrs, options)
    IN /\ CanTouch(this, r.touches)
       /\ passages' = [passages EXCEPT ![i] = r.passage]
       /\ stories' = TouchedBy(this, r.touches)
       /\ op' = [NoCall EXCEPT !.name = "set", !.this = i, !.options = options,
                               !.written = attrs,
                               !.prev = [left |-> this.left, top |-> this.top],
                               !.touches = r.touches]
       /\ UNCHANGED source

\* the anchors displace() is called on: the canvas the model explores
InReach(this) ==
    IF this.left.nan \/ this.top.nan THEN TRUE
    ELSE this.left.v <= 2 * MaxAnchorPx /\ this.top.v <= 2 * MaxAnchorPx

(* passages[i].displace(passages[j]): other.set(attr, value) with no
   options, so the 'change' handler of other runs (cascade and clamp) *)

Displace(i, j) ==
    LET this == passages[i]
        other == passages[j]
        m == displaceMove(this, other)
        r == set(other, (m.attr :> m.value), NoOptions)
    IN /\ InReach(this)
       /\ CanTouch(other, r.touches)
       /\ passages' = [passages EXCEPT ![j] = r.passage]
       /\ stories' = TouchedBy(other, r.touches)
       /\ op' = [NoCall EXCEPT !.name = "displace", !.this = i, !.other = j,
                               !.prev = [left |-> other.left, top |-> other.top],
                               !.touches = r.touches]
       /\ UNCHANGED source

-----------------------------------------------------------------------------
(* Text.  A string is a sequence of lexemes: one of the characters the
   regular expressions of links() and replaceLink() tell apart
   ("[", "]", "-", ">", "<", "|", ":", "/", a newline), or a word, a run of
   other characters that they treat alike. *)

Newline == "\n"
Open == <<"[", "[">>
Close == <<"]", "]">>

\* string s has the literal lit at position p
At(s, p, lit) ==
    /\ p >= 1
    /\ p + Len(lit) - 1 <= Len(s)
    /\ \A k \in 1..Len(lit) : s[p + k - 1] = lit[k]

\* s.substring from position a up to position b, both included
Sub(s, a, b) == IF b < a THEN <<>> ELSE SubSeq(s, a, b)

Least(S) == CHOOSE x \in S : \A y \in S : x <= y
Greatest(S) == CHOOSE x \in S : \A y \in S : x >= y

\* /.*?\]\]/ from position p: where the "]]" it ends with starts, the
\* nearest one that no newline comes before; 0 when it does not match
LazyClose(s, p) ==
    LET ends == {q \in p..Len(s) :
                    At(s, q, Close) /\ \A k \in p..(q - 1) : s[k] # Newline}
    IN IF ends = {} THEN 0 ELSE Least(ends)

\* /(?:\]\[.*?)?\]\]/ at position r: the position after the match, 0 when
\* it does not match.  The setter group is tried first.
SetterEnd(s, r) ==
    IF At(s, r, <<"]", "[">>) /\ LazyClose(s, r + 2) # 0
    THEN LazyClose(s, r + 2) + 2
    ELSE IF At(s, r, Close) THEN r + 2 ELSE 0

\* the first position from p on whose character is in stops; Len(s) + 1
\* when there is none
RunEnd(s, p, stops) ==
    LET hits == {q \in p..Len(s) : s[q] \in stops}
    IN IF hits = {} THEN Len(s) + 1 ELSE Least(hits)

NoMatch == [end |-> 0, out |-> <<>>]

(* The regular expressions, each as the match it finds at position i of s:
   end is the position after the match (0: no match at i) and out is what
   String.replace puts in its place. *)

\* /\[\[(?:([^\]]*)\->|([^\]]*?)<\-)([^\]]*)(?:\]\[.*?)?\]\]/ with
\* arrowReplacer: (a, b, c, d) => c || d.  Both alternatives end at the first
\* "]"; the greedy group before "->" leaves the rightmost "->", the lazy
\* group before "<-" the leftmost "<-".  An empty c is falsy.
ArrowLink(s, i) ==
    LET r == RunEnd(s, i + 2, {"]"})
        e == SetterEnd(s, r)
        rights == {p \in (i + 2)..(r - 1) : At(s, p, <<"-", ">">>)}
        lefts == {p \in (i + 2)..(r - 1) : At(s, p, <<"<", "-">>)}
        c == Sub(s, i + 2, Least(lefts) - 1)
    IN IF ~At(s, i, Open) \/ e = 0 THEN NoMatch
       ELSE IF rights # {}
            THEN [end |-> e, out |-> Sub(s, Greatest(rights) + 2, r - 1)]
       ELSE IF lefts # {}
            THEN [end |-> e,
                  out |-> IF c # <<>> THEN c ELSE Sub(s, Least(lefts) + 2, r - 1)]
       ELSE NoMatch

\* /\[\[([^\|\]]*?)\|([^\|\]]*)?(?:\]\[.*?)?\]\]/ replaced by '$2'
PipeLink(s, i) ==
    LET p == RunEnd(s, i + 2, {"|", "]"})
        r == RunEnd(s, p + 1, {"|", "]"})
        e == SetterEnd(s, r)
    IN IF ~At(s, i, Open) \/ ~At(s, p, <<"|">>) \/ e = 0 THEN NoMatch
       ELSE [end |-> e, out |-> Sub(s, p + 1, r - 1)]

\* /\[\[|(?:\]\[.*?)?\]\]/ replaced by ''
Brackets(s, i) ==
    IF At(s, i, Open) THEN [end |-> i + 2, out |-> <<>>]
    ELSE [end |-> SetterEnd(s, i), out |-> <<>>]

\* new RegExp('\\[\\[' + oldLink + '(\\]\\[.*?)?\\]\\]') replaced by
\* '[[' + newLink + '$1]]'
SimpleLink(s, i, oldLink, newLink) ==
    LET q == i + 2 + Len(oldLink)
        e == SetterEnd(s, q)
    IN IF ~At(s, i, Open \o oldLink) \/ e = 0 THEN NoMatch
       ELSE [end |-> e, out |-> Open \o newLink \o Sub(s, q, e - 3) \o Close]

\* new RegExp('\\[\\[(.*?)(\\||->)' + oldLink + '(\\]\\[.*?)?\\]\\]')
\* replaced by '[[$1$2' + newLink + '$3]]': the lazy $1 stops at the first
\* divider that oldLink and the end of a link follow
CompoundLink(s, i, oldLink, newLink) ==
    LET DividerAt(p) == IF At(s, p, <<"|">>) THEN 1
                        ELSE IF At(s, p, <<"-", ">">>) THEN 2 ELSE 0
        After(p) == p + DividerAt(p) + Len(oldLink)
        dividers == {p \in (i + 2)..Len(s) :
                        /\ \A k \in (i + 2)..(p - 1) : s[k] # Newline
                        /\ DividerAt(p) # 0
                        /\ At(s, p + DividerAt(p), oldLink)
                        /\ SetterEnd(s, After(p)) # 0}
        p == Least(dividers)
        e == SetterEnd(s, After(p))
    IN IF ~At(s, i, Open) \/ dividers = {} THEN NoMatch
       ELSE [end |-> e,
             out |-> Sub(s, i, p + DividerAt(p) - 1) \o newLink
                         \o Sub(s, After(p), e - 3) \o Close]

\* new RegExp('\\[\\[' + oldLink + '(<-.*?)(\\]\\[.*?)?\\]\\]') replaced by
\* '[[' + newLink + '$1$2]]': the lazy $1 stops where the end of a link
\* first matches
ReverseLink(s, i, oldLink, newLink) ==
    LET q == i + 2 + Len(oldLink)
        stops == {p \in (q + 2)..Len(s) :
                     /\ \A k \in (q + 2)..(p - 1) : s[k] # Newline
                     /\ SetterEnd(s, p) # 0}
        e == SetterEnd(s, Least(stops))
    IN IF ~At(s, i, Open \o oldLink \o <<"<", "-">>) \/ stops = {} THEN NoMatch
       ELSE [end |-> e, out |-> Open \o newLink \o Sub(s, q, e - 3) \o Close]

\* the match of the regular expression named re at position i
MatchAt(re, s, i) ==
    CASE re.name = "arrow" -> ArrowLink(s, i)
      [] re.name = "pipe" -> PipeLink(s, i)
      [] re.name = "brackets" -> Brackets(s, i)
      [] re.name = "simple" -> SimpleLink(s, i, re.oldLink, re.newLink)
      [] re.name = "compound" -> CompoundLink(s, i, re.oldLink, re.newLink)
      [] re.name = "reverse" -> ReverseLink(s, i, re.oldLink, re.newLink)

\* s.replace(re, ...) with a global re, from position i on: the matches
\* are taken left to right and do not overlap
RECURSIVE replaceFrom(_, _, _)
replaceFrom(re, s, i) ==
    IF i > Len(s) THEN <<>>
    ELSE LET m == MatchAt(re, s, i)
         IN IF m.end = 0 THEN <<s[i]>> \o replaceFrom(re, s, i + 1)
            ELSE m.out \o replaceFrom(re, s, m.end)

replace(re, s) == replaceFrom(re, s, 1)

Regexp(name) == [name |-> name, oldLink |-> <<>>, newLink |-> <<>>]
LinkRegexp(name, oldLink, newLink) ==
    [name |-> name, oldLink |-> oldLink, newLink |-> newLink]

\* text.match(/\[\[.*?\]\]/g), from position i on
RECURSIVE matchesFrom(_, _)
matchesFrom(s, i) ==
    IF i > Len(s) THEN <<>>
    ELSE IF At(s, i, Open) /\ LazyClose(s, i + 2) # 0
         THEN <<Sub(s, i, LazyClose(s, i + 2) + 1)>>
                  \o matchesFrom(s, LazyClose(s, i + 2) + 2)
         ELSE matchesFrom(s, i + 1)

\* links(): the link of one match, by the three replacements in turn
linkOf(match) ==
    replace(Regexp("brackets"),
            replace(Regexp("pipe"), replace(Regexp("arrow"), match)))

\* the names every object inherits: found = {} has them, so that
\* found[link] === undefined is false of a link so named
InheritedKeys ==
    {<<"constructor">>, <<"toString">>, <<"valueOf">>, <<"hasOwnProperty">>}

\* links(): the loop over the matches, result and found so far
RECURSIVE collect(_, _, _)
collect(matches, result, found) ==
    IF matches = <<>> THEN result
    ELSE LET link == linkOf(Head(matches))
         IN IF link # <<>> /\ link \notin found /\ link \notin InheritedKeys
            THEN collect(Tail(matches), Append(result, link), found \cup {link})
            ELSE collect(Tail(matches), result, found)

\* /^\w+:\/\/\/?\w/i.test(link); a word of the model is made of \w
IsWord(c) == c \notin {"[", "]", "-", ">", "<", "|", ":", "/", Newline, " "}
isAbsolute(link) ==
    /\ Len(link) >= 5
    /\ IsWord(link[1])
    /\ At(link, 2, <<":", "/", "/">>)
    /\ \/ IsWord(link[5])
       \/ link[5] = "/" /\ Len(link) >= 6 /\ IsWord(link[6])

links(text, internalOnly) ==
    LET result == collect(matchesFrom(text, 1), <<>>, {})
    IN IF internalOnly THEN SelectSeq(result, LAMBDA link : ~isAbsolute(link))
       ELSE result

\* replaceLink(): the text after the three replacements
replaceLinkText(text, oldLink, newLink) ==
    replace(LinkRegexp("reverse", oldLink, newLink),
        replace(LinkRegexp("compound", oldLink, newLink),
            replace(LinkRegexp("simple", oldLink, newLink), text)))

-----------------------------------------------------------------------------
(* validate(attrs, options), attrs being the attributes the passage would
   have.  The result is "ok" (validate returns nothing), "empty" or "dupe"
   (the message it returns) or "throw": with no story, this.fetchStory()
   is undefined and .fetchPassages() on it raises a TypeError. *)

\* String.prototype.toLowerCase on the names of the model
toLowerCase(name) ==
    IF name = "A" THEN "a" ELSE name

\* story.fetchPassages(): the passages that belong to story s
fetchPassages(s) ==
    {i \in DOMAIN passages :
        passages[i].story = stories[s].id \/ passages[i].story = stories[s].cid}

\* attrs.id != passage.id is false when both ids are undefined
isDupe(attrs, passage) ==
    /\ attrs.id # passage.id
    /\ toLowerCase(attrs.name) = toLowerCase(passage.name)

validate(this, attrs, options) ==
    IF options.noValidation THEN "ok"
    ELSE IF attrs.name = "" THEN "empty"
    ELSE IF options.noDupeValidation THEN "ok"
    ELSE IF fetchStory(this) = 0 THEN "throw"
    ELSE IF \E i \in fetchPassages(fetchStory(this)) : isDupe(attrs, passages[i])
         THEN "dupe"
    ELSE "ok"

(* passage.save(attrs, options): Backbone validates the attributes the
   passage would have and returns false when validate returns a message;
   otherwise it sets them (the 'change' handler runs) and hands the passage
   to the persistence hook, which completes later or at once.  Of the
   options, the handlers that run on completion read noParentUpdate. *)

SaveAs(i, attrs, options, call) ==
    LET this == passages[i]
        verdict == validate(this, Assign(this, attrs), options)
        r == set(this, attrs, options)
    IN /\ IF verdict # "ok"
          THEN /\ op' = [call EXCEPT !.result = verdict]
               /\ UNCHANGED <<passages, stories>>
          ELSE /\ Len(this.inflight) < MaxInflight
               /\ CanTouch(this, r.touches)
               /\ passages' = [passages EXCEPT
                      ![i] = [r.passage EXCEPT !.inflight =
                                Append(@, [noParentUpdate |-> options.noParentUpdate])]]
               /\ stories' = TouchedBy(this, r.touches)
               /\ op' = [call EXCEPT !.touches = r.touches]
       /\ UNCHANGED source

Save(i, attrs, options) ==
    SaveAs(i, attrs, options,
           [NoCall EXCEPT !.name = "save", !.this = i, !.options = options])

(* passage.links(internalOnly): the call returns the links *)

Links(i, internalOnly) ==
    /\ op' = [NoCall EXCEPT !.name = "links", !.this = i,
                            !.text = passages[i].text,
                            !.internalOnly = internalOnly,
                            !.returned = links(passages[i].text, internalOnly)]
    /\ UNCHANGED <<passages, stories, source>>

(* passage.replaceLink(oldLink, newLink): saves the text when the
   replacements changed it *)

ReplaceLink(i, oldLink, newLink) ==
    LET oldText == passages[i].text
        text == replaceLinkText(oldText, oldLink, newLink)
        call == [NoCall EXCEPT !.name = "replaceLink", !.this = i,
                               !.text = oldText, !.oldLink = oldLink,
                               !.newLink = newLink]
    IN IF text # oldText
       THEN SaveAs(i, [text |-> text], NoOptions, call)
       ELSE /\ op' = call
            /\ UNCHANGED <<passages, stories, source>>

(* The 'sync' handler of initialize(): unless options.noParentUpdate,
   every story whose startPassage is this passage's cid is saved with
   startPassage set to this passage's id. *)

\* the handler looking for the stories that hold the passage's id
onSyncById(this, sts, options) ==
    IF options.noParentUpdate THEN sts
    ELSE [s \in DOMAIN sts |->
             IF sts[s].startPassage = this.id
             THEN [sts[s] EXCEPT !.startPassage = this.id] ELSE sts[s]]

onSync(this, sts, options) ==
    IF options.noParentUpdate THEN sts
    ELSE [s \in DOMAIN sts |->
             IF sts[s].startPassage = this.cid
             THEN [sts[s] EXCEPT !.startPassage = this.id] ELSE sts[s]]

(* Persistence of a save completes: a passage that had no id is given one
   (Backbone sets the attributes the hook returns with the options of the
   save, which triggers 'change'), then 'sync' is triggered. *)

Sync(i) ==
    LET this == passages[i]
        options == Head(this.inflight)
        r == set(this, [id |-> IF this.id = NoId THEN PassageId[i] ELSE this.id],
                 options)
    IN /\ this.inflight # <<>>
       /\ CanTouch(this, r.touches)
       /\ passages' = [passages EXCEPT
              ![i] = [r.passage EXCEPT !.inflight = Tail(this.inflight)]]
       /\ stories' = onSync(r.passage, TouchedBy(this, r.touches), options)
       /\ op' = [NoCall EXCEPT !.name = "sync", !.this = i,
                     !.options.noParentUpdate = options.noParentUpdate,
                     !.touches = r.touches,
                     !.pointing = {s \in DOMAIN stories :
                                      stories[s].startPassage = this.cid}]
       /\ UNCHANGED source

(* The editor makes a passage the start passage of a story: the story
   holds the passage's id, or its cid while it has none *)

SetStartPassage(s, i) ==
    /\ stories' = [stories EXCEPT ![s].startPassage =
                      IF passages[i].id = NoId THEN passages[i].cid
                      ELSE passages[i].id]
    /\ op' = [NoCall EXCEPT !.name = "start", !.this = i]
    /\ UNCHANGED <<passages, source>>

-----------------------------------------------------------------------------
(* The layout specification: passages are created at, moved to and
   displaced from positions of a small grid (in pixels) *)

InputPx == {0 - 10, 0, 200, 205}

NewAt ==
    \E left \in InputPx : \E top \in InputPx :
        New("s1", defaults.name, left, top)

SetLeft ==
    \E i \in DOMAIN passages : \E x \in InputPx : \E npu \in BOOLEAN :
        Set(i, [left |-> Px(x)], [NoOptions EXCEPT !.noParentUpdate = npu])

SetTop ==
    \E i \in DOMAIN passages : \E y \in InputPx : \E npu \in BOOLEAN :
        Set(i, [top |-> Px(y)], [NoOptions EXCEPT !.noParentUpdate = npu])

DisplaceOther ==
    \E i \in DOMAIN passages : \E j \in DOMAIN passages \ {i} : Displace(i, j)

NextLayout == NewAt \/ SetLeft \/ SetTop \/ DisplaceOther

SpecLayout == Init /\ [][NextLayout]_vars

-----------------------------------------------------------------------------
(* The story specification: passages are created in a story, renamed,
   moved and persisted, and made the start passage of a story *)

Names == {"A", "a"}
StoryRefs == {"sc1", "-1"}
Options ==
    {NoOptions, [NoOptions EXCEPT !.noParentUpdate = TRUE],
     [NoOptions EXCEPT !.noValidation = TRUE],
     [NoOptions EXCEPT !.noDupeValidation = TRUE]}

NewNamed ==
    \E story \in StoryRefs : \E name \in Names : New(story, name, 0, 0)

Rename ==
    \E i \in DOMAIN passages : \E name \in Names \cup {""} : \E o \in Options :
        Save(i, [name |-> name], o)

Persisted == \E i \in DOMAIN passages : Sync(i)

Start ==
    \E s \in DOMAIN stories : \E i \in DOMAIN passages : SetStartPassage(s, i)

Next == NewNamed \/ Rename \/ Persisted \/ Start

Spec == Init /\ [][Next]_vars

-----------------------------------------------------------------------------
(* The link specification: a persisted passage of story s1 whose text was
   written as a few literal runs and link tokens; its links are asked for,
   a link is replaced, and persistence completes.

   A token is [[target]], [[display|target]], [[display->target]] or
   [[target<-display]], with or without a setter ][...; the display text
   of an arrow token may itself hold an arrow. *)

Literal(chars) ==
    [kind |-> "literal", display |-> <<>>, target |-> chars, setter |-> FALSE]
Token(kind, display, target, setter) ==
    [kind |-> kind, display |-> display, target |-> target, setter |-> setter]

Targets == {<<"a">>, <<"b">>, <<>>, <<"constructor">>}
\* a token of each kind to each target, and to a with a setter
Slots == (Targets \X {FALSE}) \cup {<<<<"a">>, TRUE>>}
Pieces ==
    {Literal(<<"x">>), Literal(<<Newline>>),
     Token("bare", <<>>, <<"http", ":", "/", "/", "x">>, FALSE)}
    \cup {Token("bare", <<>>, sl[1], sl[2]) : sl \in Slots}
    \cup {Token("pipe", <<"d">>, sl[1], sl[2]) : sl \in Slots}
    \cup {Token("->", <<"d">>, sl[1], sl[2]) : sl \in Slots}
    \cup {Token("<-", <<"d">>, sl[1], sl[2]) : sl \in Slots}
    \cup {Token("->", d, <<"b">>, FALSE) :
            d \in {<<"a", "<", "-", "d">>, <<"d", "-", ">", "a">>}}
    \cup {Token("<-", <<"d", "<", "-", "a">>, <<"b">>, FALSE)}

\* a piece as it is written in the text
Written(piece) ==
    LET content == CASE piece.kind = "bare" -> piece.target
                     [] piece.kind = "pipe" -> piece.display \o <<"|">> \o piece.target
                     [] piece.kind = "->" ->
                            piece.display \o <<"-", ">">> \o piece.target
                     [] piece.kind = "<-" ->
                            piece.target \o <<"<", "-">> \o piece.display
    IN IF piece.kind = "literal" THEN piece.target
       ELSE Open \o content
                 \o (IF piece.setter THEN <<"]", "[", "s">> ELSE <<>>) \o Close

RECURSIVE WrittenAll(_)
WrittenAll(pieces) ==
    IF pieces = <<>> THEN <<>>
    ELSE Written(Head(pieces)) \o WrittenAll(Tail(pieces))

InitLinks ==
    /\ source \in UNION {[1..n -> Pieces] : n \in 0..MaxPieces}
    /\ passages = <<[cid |-> PassageCid[1], id |-> PassageId[1], story |-> "s1",
                     name |-> "A", text |-> WrittenAll(source),
                     left |-> Px(0), top |-> Px(0), inflight |-> <<>>]>>
    /\ stories = <<[cid |-> "sc1", id |-> "s1", startPassage |-> "", lastUpdate |-> 0],
                   [cid |-> "sc2", id |-> "s2", startPassage |-> "", lastUpdate |-> 0]>>
    /\ op = NoCall

AskLinks ==
    \E i \in DOMAIN passages : \E internalOnly \in BOOLEAN : Links(i, internalOnly)

Relink ==
    \E i \in DOMAIN passages : \E oldLink \in {<<"a">>, <<"b">>} :
        ReplaceLink(i, oldLink, <<"n">>)

NextLinks == AskLinks \/ Relink \/ Persisted

SpecLinks == InitLinks /\ [][NextLinks]_vars

-----------------------------------------------------------------------------
(* Claims about the layout *)

\* the anchor and the displaced passage of the displace() that returned
\* last, the displaced passage as it was before the call and as it is now
Anchor == passages[op.this]
Before == op.prev
After == passages[op.other]
IsNonNegative(n) == ~n.nan /\ n.v >= 0
\* a displace() returned last, on a pair that intersected
DisplacedIntersecting == op.name = "displace" /\ intersects(Anchor, Before)
\* what the 'change' handler leaves of a coordinate written
Clamped(n) == IF Less(n, Num(0)) THEN Num(0) ELSE n

\* C1: after a.displace(b) on a pair with non-negative coordinates that
\* intersected, a and b do not intersect and exactly one of b.left, b.top
\* differs from its value before the call.
C1_DisplaceSeparates ==
    (/\ DisplacedIntersecting
     /\ IsNonNegative(Anchor.left) /\ IsNonNegative(Anchor.top)
     /\ IsNonNegative(Before.left) /\ IsNonNegative(Before.top))
    => /\ ~intersects(Anchor, After)
       /\ (After.left # Before.left) # (After.top # Before.top)

\* C2: left >= 0 and top >= 0 for every passage whenever an operation has
\* returned, and a write of a negative value leaves the stored value 0.
C2_NonNegativePosition ==
    /\ \A i \in DOMAIN passages :
          IsNonNegative(passages[i].left) /\ IsNonNegative(passages[i].top)
    /\ (op.name = "set" /\ "left" \in DOMAIN op.written
        /\ Less(op.written.left, Num(0))) => passages[op.this].left = Num(0)
    /\ (op.name = "set" /\ "top" \in DOMAIN op.written
        /\ Less(op.written.top, Num(0))) => passages[op.this].top = Num(0)

\* a set() returned last that changed left or top
Edited ==
    /\ op.name = "set"
    /\ \E f \in DOMAIN op.written : op.written[f] # op.prev[f]

\* C4: an edit saves the owning story's lastUpdate if and only if it was
\* made without noParentUpdate and the owning story exists, also when a
\* negative left or top was written and clamped.
C4_EditCascades ==
    Edited =>
        (op.touches > 0
            <=> (~op.options.noParentUpdate /\ fetchStory(passages[op.this]) # 0))

\* the move displace() applies along x, and along y: other's coordinate
\* becomes its padded coordinate plus the chosen move, then is clamped
MovedAlongX ==
    /\ After.left = Clamped(Plus(paddedLeft(Before), xChange(Anchor, Before)))
    /\ After.top = Before.top
MovedAlongY ==
    /\ After.top = Clamped(Plus(paddedTop(Before), yChange(Anchor, Before)))
    /\ After.left = Before.left
AbsX == MathAbs(xChange(Anchor, Before))
AbsY == MathAbs(yChange(Anchor, Before))

\* C9 (as stated): displace() applies only the move of the axis whose
\* chosen move has the larger absolute magnitude.
C9_LargerMoveApplied ==
    DisplacedIntersecting =>
        /\ Greater(AbsX, AbsY) => MovedAlongX
        /\ Greater(AbsY, AbsX) => MovedAlongY
        /\ MovedAlongX \/ MovedAlongY

\* C9 (amended): displace() applies only the move of the axis whose chosen
\* move has the smaller absolute magnitude, the x axis when the two are
\* equal, and leaves other's coordinate on the other axis untouched.
C9_SmallerMoveApplied ==
    DisplacedIntersecting =>
        /\ Less(AbsY, AbsX) => MovedAlongY /\ After.left = Before.left
        /\ ~Less(AbsY, AbsX) => MovedAlongX /\ After.top = Before.top

\* a pair that intersected was displaced along y, the two moves differing
C9_Witness ==
    /\ DisplacedIntersecting
    /\ Less(AbsY, AbsX)
    /\ After.top # Before.top

\* the distance between the padded edges of two passages that just touch
Separation == Plus(Px(width), Plus(padding, padding))
\* the four positions that just separate other from the anchor
SeparatingPositions ==
    {[left |-> Minus(Anchor.left, Separation), top |-> Before.top],
     [left |-> Plus(Anchor.left, Separation), top |-> Before.top],
     [left |-> Before.left, top |-> Minus(Anchor.top, Separation)],
     [left |-> Before.left, top |-> Plus(Anchor.top, Separation)]}
\* the four positions are on the canvas: none has a negative coordinate
OnCanvas ==
    \A q \in SeparatingPositions : IsNonNegative(q.left) /\ IsNonNegative(q.top)
\* how far a position is from where other was
Moved(pos) ==
    Plus(MathAbs(Minus(pos.left, Before.left)), MathAbs(Minus(pos.top, Before.top)))

\* C10: displace() gives other, among the four positions that just
\* separate the padded rectangles (all four on the canvas), one at minimal
\* distance from where other was.
C10_LeastMove ==
    (DisplacedIntersecting /\ OnCanvas) =>
        LET pos == [left |-> After.left, top |-> After.top]
        IN /\ pos \in SeparatingPositions
           /\ \A q \in SeparatingPositions : ~Less(Moved(q), Moved(pos))

-----------------------------------------------------------------------------
(* Claims about the story *)

\* a save() returned last whose attributes validate() checked for
\* duplicates and accepted
SavedValidated ==
    /\ op.name = "save" /\ op.result = "ok"
    /\ ~op.options.noValidation /\ ~op.options.noDupeValidation

\* C3: a name that validate() accepted is not, ignoring case, the name of
\* a different passage of the same story, whether or not the passages have
\* an id yet.
C3_ValidateRejectsDuplicates ==
    SavedValidated =>
        \A j \in DOMAIN passages \ {op.this} :
            fetchStory(passages[j]) = fetchStory(passages[op.this])
            => toLowerCase(passages[j].name) # toLowerCase(passages[op.this].name)

\* persistence of a passage completed last, without noParentUpdate
Synced == op.name = "sync" /\ ~op.options.noParentUpdate

\* C5: when persistence of a passage completes without noParentUpdate,
\* every story whose startPassage was the passage's cid holds the passage's
\* id instead, and no story's startPassage is that cid any more.
C5_StartPassageFollowsId ==
    Synced =>
        /\ \A s \in op.pointing : stories[s].startPassage = passages[op.this].id
        /\ \A s \in DOMAIN stories :
              stories[s].startPassage # passages[op.this].cid
        /\ passages[op.this].id # NoId

\* persistence completed for a passage that some story started at by cid
C5_Witness == Synced /\ op.pointing # {}

-----------------------------------------------------------------------------
(* Claims about the links *)

\* the tokens the text was written as, and their targets in order
IsToken(piece) == piece.kind # "literal"
TokensOf(pieces) == SelectSeq(pieces, IsToken)
TargetAt(k) == TokensOf(source)[k].target
WrittenTargets == {TargetAt(k) : k \in DOMAIN TokensOf(source)} \ {<<>>}
FirstToken(t) == Least({k \in DOMAIN TokensOf(source) : TargetAt(k) = t})
Places(list, t) == {k \in DOMAIN list : list[k] = t}
\* links() returned last, having scanned the text as it was written
LinksOfSource ==
    op.name = "links" /\ ~op.internalOnly /\ op.text = WrittenAll(source)

\* C7: links() returns every distinct non-empty target of a link token of
\* the text exactly once, in the order of first occurrence, and never the
\* empty target.
C7_LinksComplete ==
    LinksOfSource =>
        /\ \A t \in WrittenTargets : Cardinality(Places(op.returned, t)) = 1
        /\ Places(op.returned, <<>>) = {}
        /\ \A t, u \in WrittenTargets :
              (/\ FirstToken(t) < FirstToken(u)
               /\ Places(op.returned, t) # {} /\ Places(op.returned, u) # {})
              => Least(Places(op.returned, t)) < Least(Places(op.returned, u))

\* C8: the link of an arrow token is the text after the rightmost "->",
\* or, without "->", the text before the leftmost "<-"; a setter is not
\* part of it.
C8_ArrowTarget ==
    LinksOfSource =>
        \A k \in DOMAIN source :
            source[k].kind \in {"->", "<-"}
            => linkOf(Written(source[k])) = source[k].target

\* the pieces after every token whose target is oldLink was given newLink
Retargeted(pieces, oldLink, newLink) ==
    [k \in DOMAIN pieces |->
        IF IsToken(pieces[k]) /\ pieces[k].target = oldLink
        THEN [pieces[k] EXCEPT !.target = newLink] ELSE pieces[k]]

\* C6: replaceLink(old, new) gives every token whose target is old the
\* target new and leaves the display texts, the setters and the text
\* outside the tokens as they were.
C6_ReplaceLinkRewrites ==
    (op.name = "replaceLink" /\ op.text = WrittenAll(source))
    => passages[op.this].text
           = WrittenAll(Retargeted(source, op.oldLink, op.newLink))

====
